---- MODULE Spec2Model ----
(***************************************************************************)
(* AgriScan AI (src/app.py): a Streamlit script that is re-run from the    *)
(* top on every user interaction of a browser session.  The model handle   *)
(* is cached per process (st.cache_resource); total_scans and recent_scans *)
(* live in st.session_state, one copy per session.                         *)
(*                                                                         *)
(* A script run that does not press the scan button is one step.  A run    *)
(* that presses it is split at the library calls that can raise:           *)
(*   ClickScan -> Preprocess -> Predict -> Log -> Render                   *)
(* An exception ends the run (Streamlit shows it) and keeps the session.   *)
(***************************************************************************)
EXTENDS Integers, Sequences, FiniteSets, TLC

VARIABLES
    model,          \* the st.cache_resource entry of load_model (per process)
    load_calls,     \* how often the body of load_model has run in this process
    session_state,  \* per session: st.session_state, a dict
    app_mode,       \* per session: the sidebar radio
    uploaded_file,  \* per session: the file_uploader widget, <<>> or <<file>>
    pc,             \* per session: where the running script stands
    locals,         \* per session: the running script's local variables
    view,           \* per session: what the last script run put on the page
    downloaded,     \* per session: the last report.csv the user downloaded
    scans_done,     \* history: scans of the session whose prediction was produced
    scans_completed,\* history: scan actions of the session that ran to their end
    scan_failed,    \* history: some scan action of the session has raised
    before_scan     \* history: session_state[s] as the last scan action found it

vars == <<model, load_calls, session_state, app_mode, uploaded_file, pc,
          locals, view, downloaded, scans_done, scans_completed, scan_failed,
          before_scan>>

----------------------------------------------------------------------------
(* Bounds of the model *)

\* no scan is started in a session whose total_scans has reached MaxScans
MaxScans == 2

Sessions == {"s1", "s2"}
Solo == {"s1"}

(* Program constants *)

IMG_SIZE == 224
PIXEL_SCALE == 255
SAMPLE_MAX == 255

\* mutant: a label spelled unlike its catalog key
class_names_Spaced == <<"Healthy", "Mosaic", "Red Rot", "Rust", "Yellow">>

class_names == <<"Healthy", "Mosaic", "RedRot", "Rust", "Yellow">>

TREATMENT_INFO ==
    [RedRot  |-> [Traditional |-> "Crop rotation with rice. Remove and burn infected clumps immediately.",
                  Chemical    |-> "Dip setts in 0.1% Carbendazim solution for 15 mins before planting.",
                  Organic     |-> "Soil application of Trichoderma viride (Bio-fungicide) mixed with compost."],
     Mosaic  |-> [Traditional |-> "Use disease-free seed setts. Remove weeds that host aphids.",
                  Chemical    |-> "Spray Malathion (0.1%) or Dimethoate to control aphid vectors.",
                  Organic     |-> "Spray Neem Oil (2%) to repel aphids naturally."],
     Rust    |-> [Traditional |-> "Avoid excess nitrogen fertilizer. Ensure proper field drainage.",
                  Chemical    |-> "Spray Mancozeb (0.2%) or Propiconazole (0.1%) at 15-day intervals.",
                  Organic     |-> "Foliar spray of Verticillium lecanii (a fungus that eats rust spores)."],
     Yellow  |-> [Traditional |-> "Use hot water treated seed setts (50C for 2 hours).",
                  Chemical    |-> "Apply Imidacloprid to control the insect vectors spreading the disease.",
                  Organic     |-> "Apply balanced organic manure to boost plant immunity."],
     Healthy |-> [Traditional |-> "Continue standard irrigation and monitoring.",
                  Chemical    |-> "No chemical action needed.",
                  Organic     |-> "Maintain soil health with vermicompost."]]

Pages == {"Dashboard", "Live Analysis", "Reports"}

----------------------------------------------------------------------------
(* Inputs *)

\* an uploaded file: decodable or not; a decodable one has a PIL mode and a size
Modes == {"RGB", "RGBA", "L", "P"}
Sizes == {<<640, 480>>, <<100, 300>>}
Images == [valid : {TRUE}, mode : Modes, size : Sizes]
Corrupt == [valid |-> FALSE, mode |-> "RGB", size |-> <<1, 1>>]
Files == Images \cup {Corrupt}

\* the model's output row: five probabilities, in percent
PVals == {5, 80}
ModelOutputs == [1..5 -> PVals]

\* what datetime.date.today() can return
Dates == {"2024-01-01", "2024-01-02"}

\* the inputs of the two-session specification
FilesMulti == {[valid |-> TRUE, mode |-> "RGB", size |-> <<640, 480>>]}
ModelOutputsMulti == {<<5, 5, 80, 5, 5>>, <<80, 5, 5, 5, 5>>}
DatesMulti == {"2024-01-01"}

----------------------------------------------------------------------------
(* Session state: lines 46-50 *)

NoKeys == [k \in {} |-> 0]

\* mutant: st.session_state[key] = value, without the membership test
SetDefault_Always(d, key, value) == (key :> value) @@ d

\* if key not in st.session_state: st.session_state[key] = value
SetDefault(d, key, value) ==
    IF key \in DOMAIN d THEN d ELSE (key :> value) @@ d

InitSessionState(d) ==
    SetDefault(SetDefault(d, "total_scans", 0), "recent_scans", <<>>)

(* Model loading: lines 21-44 *)

\* load_model catches every exception and returns None
load_model(ok) == IF ok THEN "loaded" ELSE "None"

\* st.cache_resource: the body runs on a miss only; whatever it returned,
\* None included, is the entry from then on
cache_resource(entry, ok) == IF entry = "unloaded" THEN load_model(ok) ELSE entry

cache_miss(entry) == entry = "unloaded"

(* Preprocessing: lines 148-150 *)

\* ImageOps.fit: crop about the centre and resample to the requested size;
\* the mode stays the image's
ImageOps_fit(image, size) == [mode |-> image.mode, size |-> size]

\* np.array(img): height x width, and a channel axis for multi-band modes only
np_array(img) ==
    [shape |-> CASE img.mode = "RGB"  -> <<img.size[2], img.size[1], 3>>
                 [] img.mode = "RGBA" -> <<img.size[2], img.size[1], 4>>
                 [] OTHER             -> <<img.size[2], img.size[1]>>,
     lo |-> 0, hi |-> SAMPLE_MAX, den |-> 1]

\* np.expand_dims(a, axis=0) / 255.0; values are kept as the range lo/den .. hi/den
expand_dims_scaled(a) ==
    [shape |-> <<1>> \o a.shape, lo |-> a.lo, hi |-> a.hi, den |-> a.den * PIXEL_SCALE]

preprocess(image) ==
    expand_dims_scaled(np_array(ImageOps_fit(image, <<IMG_SIZE, IMG_SIZE>>)))

(* Inference: lines 152-154 *)

\* mutant: np.argmin
np_argmax_Smallest(v) ==
    (CHOOSE i \in 1..Len(v) :
        /\ \A j \in 1..Len(v) : v[i] <= v[j]
        /\ \A j \in 1..(i - 1) : v[i] < v[j]) - 1

\* np.argmax: the 0-based index of the first largest entry
np_argmax(v) ==
    (CHOOSE i \in 1..Len(v) :
        /\ \A j \in 1..Len(v) : v[j] <= v[i]
        /\ \A j \in 1..(i - 1) : v[j] < v[i]) - 1

np_max(v) == CHOOSE x \in {v[j] : j \in 1..Len(v)} : \A j \in 1..Len(v) : v[j] <= x

\* class_names[np.argmax(predictions)]
predicted_class_of(v) == class_names[np_argmax(v) + 1]

(* Session log: lines 160-162 *)

ScanRecord(today, status) == [Date |-> today, Location |-> "Live", Status |-> status]

\* mutant: recent_scans.append(record)
insert0_Append(log, rec) == log \o <<rec>>

\* recent_scans.insert(0, record)
insert0(log, rec) == <<rec>> \o log

\* mutant: the record is inserted and the counter left alone
record_scan_NoCount(d, today, status) ==
    [d EXCEPT !["recent_scans"] = insert0(@, ScanRecord(today, status))]

record_scan(d, today, status) ==
    [d EXCEPT !["total_scans"] = @ + 1,
              !["recent_scans"] = insert0(@, ScanRecord(today, status))]

(* Export: lines 190-194 *)

\* pd.DataFrame(list of dicts).to_csv(index=False): the header, then one line
\* per record in list order
csv_row(rec) == rec.Date \o "," \o rec.Location \o "," \o rec.Status

\* mutant: the lines are written oldest record first
to_csv_OldestFirst(log) ==
    <<"Date,Location,Status">> \o [i \in 1..Len(log) |-> csv_row(log[Len(log) + 1 - i])]

to_csv(log) == <<"Date,Location,Status">> \o [i \in 1..Len(log) |-> csv_row(log[i])]

----------------------------------------------------------------------------
(* Pages: what a script run renders *)

\* table: st.dataframe / st.table rows; csv: the download button's data (<<>>
\* when no button is shown); button: the scan button is shown; result and
\* treatment: <<>> or one element
BlankView(page, status) ==
    [page |-> page, status |-> status, metric |-> -1, table |-> <<>>,
     csv |-> <<>>, button |-> FALSE, result |-> <<>>, treatment |-> <<>>]

\* lines 107-118
DashboardPage(d) ==
    IF Len(d.recent_scans) > 0
    THEN [BlankView("Dashboard", "Activity Log") EXCEPT
             !.metric = d.total_scans, !.table = d.recent_scans]
    ELSE [BlankView("Dashboard", "System Ready") EXCEPT !.metric = d.total_scans]

\* lines 121-140, the scan button not pressed
LiveAnalysisPage(upload, handle) ==
    IF upload = <<>> THEN BlankView("Live Analysis", "Upload Sample")
    ELSE IF ~upload[1].valid THEN BlankView("Live Analysis", "Exception: Image.open")
    ELSE IF handle = "None" THEN BlankView("Live Analysis", "Model failed to load")
    ELSE [BlankView("Live Analysis", "Sample Preview") EXCEPT !.button = TRUE]

\* lines 188-196
ReportsPage(d) ==
    IF Len(d.recent_scans) > 0
    THEN [BlankView("Reports", "Session Reports") EXCEPT
             !.table = d.recent_scans, !.csv = to_csv(d.recent_scans)]
    ELSE BlankView("Reports", "No data available.")

RenderPage(mode, upload, handle, d) ==
    CASE mode = "Dashboard"     -> DashboardPage(d)
      [] mode = "Live Analysis" -> LiveAnalysisPage(upload, handle)
      [] mode = "Reports"       -> ReportsPage(d)

\* lines 165-185: the result, the confidence and the treatment columns
ResultView(label, confidence) ==
    [BlankView("Live Analysis", "Result") EXCEPT
        !.button = TRUE,
        !.result = <<[label |-> label, confidence |-> confidence]>>,
        !.treatment = IF label \in DOMAIN TREATMENT_INFO
                      THEN <<TREATMENT_INFO[label]>> ELSE <<>>]

NoLocals == [image |-> <<>>, img_array |-> <<>>, predictions |-> <<>>,
             predicted_class |-> "", confidence |-> -1]

----------------------------------------------------------------------------
(* The process and its sessions *)

Init ==
    /\ model = "unloaded"
    /\ load_calls = 0
    /\ session_state = [s \in Sessions |-> NoKeys]
    /\ app_mode = [s \in Sessions |-> "Dashboard"]
    /\ uploaded_file = [s \in Sessions |-> <<>>]
    /\ pc = [s \in Sessions |-> "idle"]
    /\ locals = [s \in Sessions |-> NoLocals]
    /\ view = [s \in Sessions |-> BlankView("", "")]
    /\ downloaded = [s \in Sessions |-> <<>>]
    /\ scans_done = [s \in Sessions |-> 0]
    /\ scans_completed = [s \in Sessions |-> 0]
    /\ scan_failed = [s \in Sessions |-> FALSE]
    /\ before_scan = [s \in Sessions |-> NoKeys]

\* lines 44-50, run at the top of every script run of session s
Prologue(s) ==
    /\ \E ok \in BOOLEAN : model' = cache_resource(model, ok)
    /\ load_calls' = IF cache_miss(model) THEN load_calls + 1 ELSE load_calls
    /\ session_state' = [session_state EXCEPT ![s] = InitSessionState(@)]

\* a script run of session s that does not press the scan button
Rerun(s, mode, upload) ==
    /\ Prologue(s)
    /\ app_mode' = [app_mode EXCEPT ![s] = mode]
    /\ uploaded_file' = [uploaded_file EXCEPT ![s] = upload]
    /\ view' = [view EXCEPT ![s] = RenderPage(mode, upload, model', session_state'[s])]
    /\ UNCHANGED <<pc, locals, scans_done, scans_completed, scan_failed, before_scan>>

\* the first page load, a plain rerun, or the sidebar radio (line 102); the
\* uploader keeps its file only while its page stays rendered
Navigate(s, mode) ==
    /\ pc[s] = "idle"
    /\ Rerun(s, mode, IF mode = "Live Analysis" /\ view[s].page = "Live Analysis"
                      THEN uploaded_file[s] ELSE <<>>)
    /\ UNCHANGED downloaded

\* line 128: a file is dropped on the uploader; lines 130-140 run
Upload(s, file) ==
    /\ pc[s] = "idle"
    /\ view[s].page = "Live Analysis"
    /\ Rerun(s, "Live Analysis", <<file>>)
    /\ UNCHANGED downloaded

\* mutant: the log is emptied once it has been handed over
ClickDownload_ClearsLog(s) ==
    /\ pc[s] = "idle"
    /\ view[s].csv # <<>>
    /\ downloaded' = [downloaded EXCEPT ![s] = view[s].csv]
    /\ \E ok \in BOOLEAN : model' = cache_resource(model, ok)
    /\ load_calls' = IF cache_miss(model) THEN load_calls + 1 ELSE load_calls
    /\ session_state' = [session_state EXCEPT
           ![s] = [total_scans |-> 0, recent_scans |-> <<>>]]
    /\ app_mode' = [app_mode EXCEPT ![s] = "Reports"]
    /\ uploaded_file' = [uploaded_file EXCEPT ![s] = <<>>]
    /\ view' = [view EXCEPT ![s] = ReportsPage(session_state[s])]
    /\ UNCHANGED <<pc, locals, scans_done, scans_completed, scan_failed, before_scan>>

\* line 194: the download button hands over the csv it was built with, and
\* the click reruns the script
ClickDownload(s) ==
    /\ pc[s] = "idle"
    /\ view[s].csv # <<>>
    /\ downloaded' = [downloaded EXCEPT ![s] = view[s].csv]
    /\ Rerun(s, "Reports", <<>>)

\* line 140 returns True: lines 141-145
ClickScan(s) ==
    /\ pc[s] = "idle"
    /\ view[s].button
    /\ session_state[s].total_scans < MaxScans
    /\ Prologue(s)
    /\ pc' = [pc EXCEPT ![s] = "preprocess"]
    /\ locals' = [locals EXCEPT ![s] = [NoLocals EXCEPT !.image = uploaded_file[s]]]
    /\ view' = [view EXCEPT ![s] = BlankView("Live Analysis", "Processing...")]
    /\ before_scan' = [before_scan EXCEPT ![s] = session_state'[s]]
    /\ UNCHANGED <<app_mode, uploaded_file, downloaded, scans_done, scans_completed, scan_failed>>

\* mutant: the scan is counted before it has been made
Preprocess_CountsFirst(s) ==
    /\ pc[s] = "preprocess"
    /\ locals' = [locals EXCEPT ![s].img_array = <<preprocess(locals[s].image[1])>>]
    /\ pc' = [pc EXCEPT ![s] = "predict"]
    /\ session_state' = [session_state EXCEPT ![s]["total_scans"] = @ + 1]
    /\ UNCHANGED <<model, load_calls, app_mode, uploaded_file, view, downloaded,
                   scans_done, scans_completed, scan_failed, before_scan>>

\* lines 148-150
Preprocess(s) ==
    /\ pc[s] = "preprocess"
    /\ locals' = [locals EXCEPT ![s].img_array = <<preprocess(locals[s].image[1])>>]
    /\ pc' = [pc EXCEPT ![s] = "predict"]
    /\ UNCHANGED <<model, load_calls, session_state, app_mode, uploaded_file,
                   view, downloaded, scans_done, scans_completed, scan_failed, before_scan>>

\* the input the model artifact accepts
ModelAccepts(t) == t.shape = <<1, IMG_SIZE, IMG_SIZE, 3>>

\* lines 152-157: a forward pass that returns the row out
Predict(s, out) ==
    /\ pc[s] = "predict"
    /\ model = "loaded"
    /\ ModelAccepts(locals[s].img_array[1])
    /\ locals' = [locals EXCEPT ![s].predictions = <<out>>,
                                ![s].predicted_class = predicted_class_of(out),
                                ![s].confidence = np_max(out)]
    /\ pc' = [pc EXCEPT ![s] = "log"]
    /\ scans_done' = [scans_done EXCEPT ![s] = @ + 1]
    /\ UNCHANGED <<model, load_calls, session_state, app_mode, uploaded_file,
                   view, downloaded, scans_completed, scan_failed, before_scan>>

\* mutant: the counter and the log are one pair for the whole process
Log_Shared(s, today) ==
    /\ pc[s] = "log"
    /\ session_state' =
           [t \in Sessions |->
               IF "total_scans" \in DOMAIN session_state[t]
               THEN record_scan(session_state[t], today, locals[s].predicted_class)
               ELSE session_state[t]]
    /\ pc' = [pc EXCEPT ![s] = "render"]
    /\ UNCHANGED <<model, load_calls, app_mode, uploaded_file, locals, view,
                   downloaded, scans_done, scans_completed, scan_failed, before_scan>>

\* lines 160-162
Log(s, today) ==
    /\ pc[s] = "log"
    /\ session_state' = [session_state EXCEPT
           ![s] = record_scan(@, today, locals[s].predicted_class)]
    /\ pc' = [pc EXCEPT ![s] = "render"]
    /\ UNCHANGED <<model, load_calls, app_mode, uploaded_file, locals, view,
                   downloaded, scans_done, scans_completed, scan_failed, before_scan>>

\* lines 165-185
Render(s) ==
    /\ pc[s] = "render"
    /\ view' = [view EXCEPT ![s] = ResultView(locals[s].predicted_class,
                                              locals[s].confidence)]
    /\ pc' = [pc EXCEPT ![s] = "idle"]
    /\ locals' = [locals EXCEPT ![s] = NoLocals]
    /\ scans_completed' = [scans_completed EXCEPT ![s] = @ + 1]
    /\ UNCHANGED <<model, load_calls, session_state, app_mode, uploaded_file,
                   downloaded, scans_done, scan_failed, before_scan>>

\* a library call of the running step raises (ImageOps.fit, model.predict on
\* any input and always on one the model does not accept, a st.* call);
\* Streamlit shows the exception under what the run had rendered, the scan
\* button of line 140 included; the run ends, the session goes on
ScanRaise(s) ==
    /\ pc[s] \in {"preprocess", "predict", "render"}
    /\ view' = [view EXCEPT ![s] =
           [BlankView("Live Analysis", "Exception: " \o pc[s]) EXCEPT !.button = TRUE]]
    /\ pc' = [pc EXCEPT ![s] = "idle"]
    /\ locals' = [locals EXCEPT ![s] = NoLocals]
    /\ scan_failed' = [scan_failed EXCEPT ![s] = TRUE]
    /\ UNCHANGED <<model, load_calls, session_state, app_mode, uploaded_file,
                   downloaded, scans_done, scans_completed, before_scan>>

\* one session, every input
Next ==
    \E s \in Solo :
        \/ \E mode \in Pages : Navigate(s, mode)
        \/ \E file \in Files : Upload(s, file)
        \/ ClickDownload(s)
        \/ ClickScan(s)
        \/ Preprocess(s)
        \/ \E out \in ModelOutputs : Predict(s, out)
        \/ \E today \in Dates : Log(s, today)
        \/ Render(s)
        \/ ScanRaise(s)

Spec == Init /\ [][Next]_vars

\* the scans session s has started and not lost to an exception
StartedScans(s) ==
    IF "total_scans" \in DOMAIN session_state[s]
    THEN session_state[s].total_scans
         + (IF pc[s] \in {"preprocess", "predict", "log"} THEN 1 ELSE 0)
    ELSE 0

RECURSIVE SumStarted(_)
SumStarted(S) ==
    IF S = {} THEN 0
    ELSE LET s == CHOOSE x \in S : TRUE IN StartedScans(s) + SumStarted(S \ {s})

\* two sessions of one process, their steps interleaved; the sessions start
\* at most MaxScans scans between them
NextMulti ==
    \E s \in Sessions :
        \/ \E mode \in Pages : Navigate(s, mode)
        \/ \E file \in FilesMulti : Upload(s, file)
        \/ ClickDownload(s)
        \/ SumStarted(Sessions) < MaxScans /\ ClickScan(s)
        \/ Preprocess(s)
        \/ \E out \in ModelOutputsMulti : Predict(s, out)
        \/ \E today \in DatesMulti : Log(s, today)
        \/ Render(s)
        \/ ScanRaise(s)

SpecMulti == Init /\ [][NextMulti]_vars

----------------------------------------------------------------------------
(* Claims *)

HasState(s) == DOMAIN session_state[s] = {"total_scans", "recent_scans"}

total_scans(s) == session_state[s].total_scans

recent_scans(s) == session_state[s].recent_scans

\* a ScanRecord as line 162 builds it
IsScanRecord(r) ==
    /\ DOMAIN r = {"Date", "Location", "Status"}
    /\ r.Date \in Dates
    /\ r.Location = "Live"
    /\ \E i \in 1..Len(class_names) : r.Status = class_names[i]

\* C1 as stated: whenever no script of the session is running, total_scans
\* is the length of recent_scans and both are the number of scan actions of
\* the session that completed without raising.
C1_CountEqualsCompletedScans ==
    \A s \in Sessions :
        (HasState(s) /\ pc[s] = "idle") =>
            /\ total_scans(s) = Len(recent_scans(s))
            /\ total_scans(s) = scans_completed[s]

\* C1 as amended: in every state total_scans is the length of recent_scans,
\* and both are the number of scans of the session whose prediction was
\* produced and recorded (a prediction whose record is the next step counts
\* one ahead); the scan actions that ran to their end are never more.
C1_CountEqualsLogLength ==
    \A s \in Sessions :
        HasState(s) =>
            /\ total_scans(s) = Len(recent_scans(s))
            /\ total_scans(s) = scans_done[s] - (IF pc[s] = "log" THEN 1 ELSE 0)
            /\ scans_completed[s] <= total_scans(s)

\* two scans recorded, one of them by a scan action that raised after its
\* log step, the report exported
C1_Witness ==
    /\ HasState("s1")
    /\ total_scans("s1") = 2
    /\ Len(recent_scans("s1")) = 2
    /\ scans_completed["s1"] = 1
    /\ scan_failed["s1"]
    /\ downloaded["s1"] # <<>>
    /\ view["s1"].page = "Dashboard"

ScanExceptions == {"Exception: preprocess", "Exception: predict", "Exception: render"}

\* C2 as stated: a scan action that raised at any of its steps, the ones after
\* the log included, left total_scans and recent_scans as it found them.
C2_FailedScanLeavesStateAsFound ==
    \A s \in Sessions :
        view[s].status \in ScanExceptions => session_state[s] = before_scan[s]

\* C2 as amended: a scan action that raised before its log step (ImageOps.fit,
\* model.predict, the progress widgets) left total_scans and recent_scans as it
\* found them; one that raised after its log step left exactly its own record
\* at the head of the log and total_scans one higher; a run that stopped at
\* Image.open or at the missing model changed nothing; and while the cached
\* handle is None no scan starts in any session.
C2_FailureBeforeLogLeavesState ==
    /\ [](\A s \in Sessions :
            /\ view[s].status \in {"Exception: preprocess", "Exception: predict"}
                  => session_state[s] = before_scan[s]
            /\ view[s].status = "Exception: render"
                  => /\ total_scans(s) = before_scan[s].total_scans + 1
                     /\ Tail(recent_scans(s)) = before_scan[s].recent_scans
                     /\ IsScanRecord(Head(recent_scans(s)))
            /\ model = "None" => pc[s] = "idle" /\ ~view[s].button)
    /\ [][\A s \in Sessions :
            (/\ HasState(s)
             /\ view'[s] # view[s]
             /\ view'[s].status \in {"Exception: Image.open", "Model failed to load"})
                => session_state'[s] = session_state[s]]_vars

\* a scan of the session raised before its log step, and a later scan of the
\* same session has shown its result
C2_Witness ==
    /\ scan_failed["s1"]
    /\ view["s1"].status = "Result"
    /\ total_scans("s1") = 1
    /\ scans_done["s1"] = 1

\* C3: every change of an existing log puts one new ScanRecord at index 0, the
\* Status being the prediction of the running scan, and keeps the records it
\* had, in their order, one position later; total_scans goes up by one.
C3_RecordPrepends ==
    [][\A s \in Sessions :
        (HasState(s) /\ session_state'[s] # session_state[s]) =>
            /\ Len(recent_scans(s)') = Len(recent_scans(s)) + 1
            /\ \A i \in 1..Len(recent_scans(s)) :
                   recent_scans(s)'[i + 1] = recent_scans(s)[i]
            /\ IsScanRecord(recent_scans(s)'[1])
            /\ recent_scans(s)'[1].Status = locals[s].predicted_class
            /\ total_scans(s)' = total_scans(s) + 1]_vars

\* (2024-01-01, Live, RedRot) was recorded, then (2024-01-02, Live, Healthy)
C3_Witness ==
    /\ HasState("s1")
    /\ recent_scans("s1") =
           <<[Date |-> "2024-01-02", Location |-> "Live", Status |-> "Healthy"],
             [Date |-> "2024-01-01", Location |-> "Live", Status |-> "RedRot"]>>
    /\ total_scans("s1") = 2

\* C4: a session's state changes in two ways only: its first script run
\* creates it with total_scans = 0 and an empty log, and the log step of a
\* scan whose prediction was produced records that scan.  Reruns, navigation,
\* uploads, downloads and raising runs leave it as it is.
C4_OnlyInferenceChangesState ==
    [][\A s \in Sessions :
        session_state'[s] # session_state[s] =>
            \/ /\ session_state[s] = NoKeys
               /\ view[s].page = ""
               /\ session_state'[s] = [total_scans |-> 0, recent_scans |-> <<>>]
            \/ /\ pc[s] = "log"
               /\ pc'[s] = "render"
               /\ locals[s].predictions # <<>>]_vars

\* after a scan the user has uploaded again without scanning, downloaded the
\* report and gone back to the dashboard, which still shows the scan
C4_Witness ==
    /\ HasState("s1")
    /\ total_scans("s1") = 1
    /\ downloaded["s1"] # <<>>
    /\ view["s1"].page = "Dashboard"
    /\ view["s1"].metric = 1
    /\ view["s1"].table = recent_scans("s1")

\* C5: the Reports page of an empty log shows "No data available." and offers
\* no file; of a log of N >= 1 records it offers the line Date,Location,Status
\* followed by exactly N lines, line i being Date,Location,Status of record i.
C5_ExportRows ==
    \A s \in Sessions :
        (HasState(s) /\ view[s].page = "Reports") =>
            LET log == recent_scans(s)
                csv == view[s].csv
            IN  IF Len(log) = 0
                THEN csv = <<>> /\ view[s].status = "No data available."
                ELSE /\ Len(csv) = Len(log) + 1
                     /\ csv[1] = "Date,Location,Status"
                     /\ \A i \in 1..Len(log) :
                            csv[i + 1] = log[i].Date \o "," \o log[i].Location
                                                     \o "," \o log[i].Status

\* the report of the log RedRot (2024-01-01), then Healthy (2024-01-02)
C5_Witness ==
    /\ view["s1"].page = "Reports"
    /\ view["s1"].csv = <<"Date,Location,Status",
                          "2024-01-02,Live,Healthy",
                          "2024-01-01,Live,RedRot">>

\* C6: a script run that renders the Reports page leaves total_scans and
\* recent_scans as they were, and the file it offers is the file downloaded
\* before whenever no record came in between (the downloaded file has as many
\* data lines as total_scans counts).
C6_ExportIsPure ==
    /\ [][\A s \in Sessions :
            (HasState(s) /\ view'[s].page = "Reports")
                => session_state'[s] = session_state[s]]_vars
    /\ [](\A s \in Sessions :
            (/\ HasState(s)
             /\ view[s].page = "Reports"
             /\ downloaded[s] # <<>>
             /\ Len(downloaded[s]) = total_scans(s) + 1)
                => view[s].csv = downloaded[s])

\* the report of two records was downloaded and the page, rerun by the
\* click, offers it again
C6_Witness ==
    /\ HasState("s1")
    /\ total_scans("s1") = 2
    /\ view["s1"].page = "Reports"
    /\ Len(downloaded["s1"]) = 3
    /\ view["s1"].csv = downloaded["s1"]

\* C7: the label is the class name at the (first) index of the largest
\* entry of the model's row, the confidence is that entry, the label is one of
\* the five class names, and the record the log step stores has the label as
\* its Status.
C7_LabelIsArgmax ==
    \A s \in Sessions :
        locals[s].predictions # <<>> =>
            LET v == locals[s].predictions[1]
            IN  /\ \E i \in 1..5 :
                      /\ class_names[i] = locals[s].predicted_class
                      /\ v[i] = locals[s].confidence
                      /\ \A j \in 1..5 : v[j] <= v[i]
                      /\ \A j \in 1..(i - 1) : v[j] < v[i]
                /\ locals[s].predicted_class
                       \in {"Healthy", "Mosaic", "RedRot", "Rust", "Yellow"}
                /\ pc[s] = "render"
                       => recent_scans(s)[1].Status = locals[s].predicted_class

\* [0.05, 0.05, 0.8, 0.05, 0.05] gave RedRot with confidence 0.8, recorded
C7_Witness ==
    /\ pc["s1"] = "render"
    /\ locals["s1"].predictions = <<(<<5, 5, 80, 5, 5>>)>>
    /\ locals["s1"].predicted_class = "RedRot"
    /\ locals["s1"].confidence = 80
    /\ recent_scans("s1")[1].Status = "RedRot"

\* C8: whatever decodable image was uploaded, the array handed to the model
\* has shape (1, 224, 224, 3) and every value in [0, 1].
C8_PreprocessShapeAndRange ==
    \A s \in Sessions :
        locals[s].img_array # <<>> =>
            LET t == locals[s].img_array[1]
            IN  /\ t.shape = <<1, 224, 224, 3>>
                /\ 0 <= t.lo
                /\ t.lo <= t.hi
                /\ t.hi <= t.den

\* C9: each of the five class names has exactly one catalog entry, with the
\* three strings, and a scan that showed its result showed the entry of the
\* label it showed: the branch without an entry is never taken.
C9_CatalogTotal ==
    /\ \A i \in 1..Len(class_names) : class_names[i] \in DOMAIN TREATMENT_INFO
    /\ Cardinality(DOMAIN TREATMENT_INFO) = 5
    /\ \A k \in DOMAIN TREATMENT_INFO :
           DOMAIN TREATMENT_INFO[k] = {"Traditional", "Chemical", "Organic"}
    /\ \A s \in Sessions :
           view[s].result # <<>> =>
               /\ Len(view[s].treatment) = 1
               /\ \E k \in DOMAIN TREATMENT_INFO :
                      /\ k = view[s].result[1].label
                      /\ view[s].treatment[1] = TREATMENT_INFO[k]

\* a scan predicted Yellow and showed the three Yellow treatments
C9_Witness ==
    /\ view["s1"].result # <<>>
    /\ view["s1"].result[1].label = "Yellow"
    /\ view["s1"].treatment # <<>>
    /\ view["s1"].treatment[1].Organic
           = "Apply balanced organic manure to boost plant immunity."

\* C10: with two sessions interleaved, a session's state changes only in a
\* step of its own (its first script run, or the log step of its own scan,
\* which prepends the scan's own prediction), never in a step of the other
\* session; the model handle is the one entry of the process, the body of
\* load_model runs once, a None it returned included, and the entry never
\* changes afterwards.
C10_SessionsIsolated ==
    /\ [][/\ \A s \in Sessions :
                session_state'[s] # session_state[s] =>
                    /\ \A t \in Sessions \ {s} :
                           /\ pc'[t] = pc[t]
                           /\ view'[t] = view[t]
                           /\ session_state'[t] = session_state[t]
                    /\ \/ session_state[s] = NoKeys /\ view'[s] # view[s]
                       \/ /\ pc[s] = "log"
                          /\ total_scans(s)' = total_scans(s) + 1
                          /\ recent_scans(s)' =
                                 <<[Date |-> recent_scans(s)'[1].Date,
                                    Location |-> "Live",
                                    Status |-> locals[s].predicted_class]>>
                                 \o recent_scans(s)
          /\ model # "unloaded" => model' = model
          /\ load_calls' <= 1]_vars
    /\ [](model = "unloaded" <=> load_calls = 0)

\* both sessions have scanned, with different results, on the one handle
C10_Witness ==
    /\ model = "loaded"
    /\ load_calls = 1
    /\ HasState("s1") /\ HasState("s2")
    /\ total_scans("s1") = 1 /\ recent_scans("s1")[1].Status = "RedRot"
    /\ total_scans("s2") = 1 /\ recent_scans("s2")[1].Status = "Healthy"
    /\ pc["s1"] = "idle" /\ pc["s2"] = "idle"

====
